---- MODULE Spec2Model ----
(***************************************************************************)
(* EnhancedGestureController (gesture_controller.py) as a state machine.   *)
(*                                                                         *)
(* Units.  Time is counted in tenths of a second (0.2 s = 2, 0.3 s = 3),   *)
(* angles in degrees, palm positions in pixels, palm depth and landmark    *)
(* coordinates in hundredths (0.04 = 4, 0.05 = 5).  The sensitivity is     *)
(* kept in tenths (1.0 = 10), and every threshold derived from it by a     *)
(* division is kept as an exact fraction <<numerator, denominator>>, so    *)
(* that no comparison of the code is rounded.                              *)
(*                                                                         *)
(* A value that is None in the code is the empty sequence <<>>, a set      *)
(* value v is <<v>>.                                                       *)
(***************************************************************************)
EXTENDS Integers, Sequences, FiniteSets, TLC

VARIABLES
    mode,                  \* self.mode
    sensitivity,           \* self.sensitivity, in tenths
    cooldown_time,         \* self.cooldown_time, a fraction of tenths of a second
    rotation_threshold,    \* self.rotation_threshold, a fraction of degrees
    swipe_threshold,       \* self.swipe_threshold, a fraction of pixels
    depth_threshold,       \* self.depth_threshold, a fraction of hundredths
    last_gesture,          \* self.last_gesture
    gesture_start_time,    \* self.gesture_start_time
    last_action_time,      \* self.last_action_time
    last_rotation,         \* self.last_rotation (optional)
    rotation_accumulator,  \* self.rotation_accumulator
    last_palm_x,           \* self.last_palm_x (optional)
    last_palm_y,           \* self.last_palm_y (optional)
    last_palm_z,           \* self.last_palm_z (optional)
    is_clicking,           \* self.is_clicking
    is_dragging,           \* self.is_dragging
    volume_control,        \* self.volume_control is set (Windows audio endpoint)
    PYAUTOGUI_AVAILABLE,   \* the module's PYAUTOGUI_AVAILABLE
    now,                   \* the clock read by time.time()
    ret,                   \* what the last call did: its result and its sink calls
    hist,                  \* history of the run, read only by the properties
    probe                  \* history of the resets, read only by the properties

vars == <<mode, sensitivity, cooldown_time, rotation_threshold, swipe_threshold,
          depth_threshold, last_gesture, gesture_start_time, last_action_time,
          last_rotation, rotation_accumulator, last_palm_x, last_palm_y,
          last_palm_z, is_clicking, is_dragging, volume_control,
          PYAUTOGUI_AVAILABLE, now, ret, hist, probe>>

----------------------------------------------------------------------------
(* Enumerations *)

MEDIA == "media_control"
MOUSE == "mouse_control"
WINDOW == "window_management"
PRESENTATION == "presentation_mode"
ControlMode == {MEDIA, MOUSE, WINDOW, PRESENTATION}

FIST == "fist"
OPEN_HAND == "open_hand"
PEACE == "peace"
POINTING == "pointing"
THUMBS_UP == "thumbs_up"
PINCH == "pinch"
ROTATE_LEFT == "rotate_left"
ROTATE_RIGHT == "rotate_right"
SWIPE_LEFT == "swipe_left"
SWIPE_RIGHT == "swipe_right"
SWIPE_UP == "swipe_up"
SWIPE_DOWN == "swipe_down"
PALM_PUSH == "palm_push"
PALM_PULL == "palm_pull"
NONE == "none"
Gesture == {FIST, OPEN_HAND, PEACE, POINTING, THUMBS_UP, PINCH, ROTATE_LEFT,
            ROTATE_RIGHT, SWIPE_LEFT, SWIPE_RIGHT, SWIPE_UP, SWIPE_DOWN,
            PALM_PUSH, PALM_PULL, NONE}

----------------------------------------------------------------------------
(* Optional values and exact fractions *)

None == <<>>
Some(v) == <<v>>
IsNone(o) == Len(o) = 0
Val(o) == o[1]

Abs(x) == IF x < 0 THEN -x ELSE x

\* The fraction n/d, d > 0.
Frac(n, d) == <<n, d>>
\* max(a, b) of two fractions.
FracMax(a, b) == IF a[1] * b[2] >= b[1] * a[2] THEN a ELSE b
\* integer i > fraction r, i < fraction r, i < -r
IntGt(i, r) == i * r[2] > r[1]
IntLt(i, r) == i * r[2] < r[1]
IntLtNeg(i, r) == i * r[2] < -r[1]
FracEq(a, b) == a[1] * b[2] = b[1] * a[2]

----------------------------------------------------------------------------
(* Sensitivity and the thresholds derived from it (set_sensitivity, __init__) *)

\* Mutant of ClampSensitivity: the value is taken as given.
ClampSensitivityOff(v) == v

\* max(0.3, min(3.0, sensitivity)), in tenths
ClampSensitivity(v) == IF v < 3 THEN 3 ELSE IF v > 30 THEN 30 ELSE v
\* Mutant of CooldownOf: the cooldown grows with the sensitivity.
CooldownOfProduct(s) == FracMax(Frac(3, 1), Frac(8 * s, 10))

\* max(0.3, 0.8 / s) seconds, in tenths of a second
CooldownOf(s) == FracMax(Frac(3, 1), Frac(80, s))
\* max(15, 25 / s) degrees
RotationThresholdOf(s) == FracMax(Frac(15, 1), Frac(250, s))
\* max(60, 100 / s) pixels
SwipeThresholdOf(s) == FracMax(Frac(60, 1), Frac(1000, s))
\* 0.08 / s, in hundredths
DepthThresholdOf(s) == Frac(80, s)

----------------------------------------------------------------------------
(* Landmarks: a sequence of <<x, y>> points in hundredths; landmarks[i] of *)
(* the code is LM(landmarks, i).  Absent landmarks are the empty sequence. *)

LM(landmarks, i) == landmarks[i + 1]

\* The indices _detect_finger_states reads, in the order it reads them.
FingerIndices == <<4, 2, 8, 6, 12, 10, 16, 14, 20, 18>>

\* landmarks[i] raises (IndexError, or TypeError on None) for one of the
\* indices read before anything is assigned.
LandmarksRaise(landmarks) ==
    \E k \in 1..Len(FingerIndices) : FingerIndices[k] >= Len(landmarks)

\* [thumb, index, middle, ring, pinky], TRUE if extended
DetectFingerStates(landmarks) ==
    << Abs(LM(landmarks, 4)[1] - LM(landmarks, 2)[1]) > 4,
       LM(landmarks, 8)[2] < LM(landmarks, 6)[2] - 3,
       LM(landmarks, 12)[2] < LM(landmarks, 10)[2] - 3,
       LM(landmarks, 16)[2] < LM(landmarks, 14)[2] - 3,
       LM(landmarks, 20)[2] < LM(landmarks, 18)[2] - 3 >>

\* sqrt(dx^2 + dy^2) < 0.05, squared: dx^2 + dy^2 < 25 in hundredths
DetectPinch(landmarks) ==
    LET dx == LM(landmarks, 4)[1] - LM(landmarks, 8)[1]
        dy == LM(landmarks, 4)[2] - LM(landmarks, 8)[2]
    IN  dx * dx + dy * dy < 25

----------------------------------------------------------------------------
(* detect_gesture *)

\* The finger-combination and openness rules (first match wins).
ShapeGesture(openness, landmarks) ==
    LET fs == DetectFingerStates(landmarks)
    IN  IF DetectPinch(landmarks) THEN PINCH
        ELSE IF fs[2] /\ ~(fs[3] \/ fs[4] \/ fs[5]) THEN POINTING
        ELSE IF fs[2] /\ fs[3] /\ ~(fs[4] \/ fs[5]) THEN PEACE
        ELSE IF fs[1] /\ ~(fs[2] \/ fs[3] \/ fs[4] \/ fs[5]) THEN THUMBS_UP
        ELSE IF openness < 25 THEN FIST
        ELSE IF openness > 75 THEN OPEN_HAND
        ELSE NONE

\* Depth gestures: g is the gesture so far, lastZ the depth baseline.
DepthOverride(g, lastZ, palm_z, depthTh) ==
    IF IsNone(lastZ) THEN g
    ELSE LET z_diff == palm_z - Val(lastZ)
         IN  IF IntLtNeg(z_diff, depthTh) THEN PALM_PUSH
             ELSE IF IntGt(z_diff, depthTh) THEN PALM_PULL
             ELSE g

\* The signed difference of two angles as the code normalises it.
RotDiff(rotation, last) ==
    LET d == rotation - last
    IN  IF d > 180 THEN d - 360 ELSE IF d < -180 THEN d + 360 ELSE d

\* Mutant of RotationOverride: the accumulator is not cleared on a turn.
RotationOverrideKeeps(g, lastRot, acc, rotation, rotTh) ==
    IF IsNone(lastRot) THEN [gesture |-> g, acc |-> acc]
    ELSE LET acc1 == acc + RotDiff(rotation, Val(lastRot))
         IN  [gesture |-> IF IntGt(Abs(acc1), rotTh)
                          THEN IF acc1 > 0 THEN ROTATE_RIGHT ELSE ROTATE_LEFT
                          ELSE g,
              acc |-> acc1]

\* Mutant of RotationOverride: the accumulator is compared before the
\* turn of this frame is added.
RotationOverrideLate(g, lastRot, acc, rotation, rotTh) ==
    IF IsNone(lastRot) THEN [gesture |-> g, acc |-> acc]
    ELSE LET acc1 == acc + RotDiff(rotation, Val(lastRot))
         IN  IF IntGt(Abs(acc), rotTh)
             THEN [gesture |-> IF acc > 0 THEN ROTATE_RIGHT ELSE ROTATE_LEFT,
                   acc |-> 0]
             ELSE [gesture |-> g, acc |-> acc1]

\* Mutant of RotationOverride: an accumulator that reaches the threshold
\* is a turn already.
RotationOverrideAtThreshold(g, lastRot, acc, rotation, rotTh) ==
    IF IsNone(lastRot) THEN [gesture |-> g, acc |-> acc]
    ELSE LET acc1 == acc + RotDiff(rotation, Val(lastRot))
         IN  IF Abs(acc1) * rotTh[2] >= rotTh[1]
             THEN [gesture |-> IF acc1 > 0 THEN ROTATE_RIGHT ELSE ROTATE_LEFT,
                   acc |-> 0]
             ELSE [gesture |-> g, acc |-> acc1]

\* Rotation gestures: the gesture and the accumulator after the step.
RotationOverride(g, lastRot, acc, rotation, rotTh) ==
    IF IsNone(lastRot) THEN [gesture |-> g, acc |-> acc]
    ELSE LET acc1 == acc + RotDiff(rotation, Val(lastRot))
         IN  IF IntGt(Abs(acc1), rotTh)
             THEN [gesture |-> IF acc1 > 0 THEN ROTATE_RIGHT ELSE ROTATE_LEFT,
                   acc |-> 0]
             ELSE [gesture |-> g, acc |-> acc1]

Swipes == {SWIPE_LEFT, SWIPE_RIGHT, SWIPE_UP, SWIPE_DOWN}

\* Mutant of SwipeOverride: the horizontal swipes are named by the hand's
\* side, not the image's.
SwipeOverrideMirrored(g, lastX, lastY, palm_x, palm_y, swipeTh) ==
    IF IsNone(lastX) \/ IsNone(lastY) THEN [gesture |-> g, x |-> lastX, y |-> lastY]
    ELSE LET x_diff == palm_x - Val(lastX)
             y_diff == palm_y - Val(lastY)
         IN  IF IntGt(Abs(x_diff), swipeTh) /\ Abs(x_diff) > Abs(y_diff)
             THEN [gesture |-> IF x_diff > 0 THEN SWIPE_LEFT ELSE SWIPE_RIGHT,
                   x |-> Some(palm_x), y |-> lastY]
             ELSE IF IntGt(Abs(y_diff), swipeTh) /\ Abs(y_diff) > Abs(x_diff)
             THEN [gesture |-> IF y_diff < 0 THEN SWIPE_UP ELSE SWIPE_DOWN,
                   x |-> lastX, y |-> Some(palm_y)]
             ELSE [gesture |-> g, x |-> lastX, y |-> lastY]

\* Mutant of SwipeOverride: a swipe does not replace a rotation.
SwipeOverrideYields(g, lastX, lastY, palm_x, palm_y, swipeTh) ==
    IF IsNone(lastX) \/ IsNone(lastY) \/ g \in {ROTATE_LEFT, ROTATE_RIGHT}
    THEN [gesture |-> g, x |-> lastX, y |-> lastY]
    ELSE LET x_diff == palm_x - Val(lastX)
             y_diff == palm_y - Val(lastY)
         IN  IF IntGt(Abs(x_diff), swipeTh) /\ Abs(x_diff) > Abs(y_diff)
             THEN [gesture |-> IF x_diff > 0 THEN SWIPE_RIGHT ELSE SWIPE_LEFT,
                   x |-> Some(palm_x), y |-> lastY]
             ELSE IF IntGt(Abs(y_diff), swipeTh) /\ Abs(y_diff) > Abs(x_diff)
             THEN [gesture |-> IF y_diff < 0 THEN SWIPE_UP ELSE SWIPE_DOWN,
                   x |-> lastX, y |-> Some(palm_y)]
             ELSE [gesture |-> g, x |-> lastX, y |-> lastY]

\* Swipe gestures: the gesture and the X/Y baselines after the step.
SwipeOverride(g, lastX, lastY, palm_x, palm_y, swipeTh) ==
    IF IsNone(lastX) \/ IsNone(lastY) THEN [gesture |-> g, x |-> lastX, y |-> lastY]
    ELSE LET x_diff == palm_x - Val(lastX)
             y_diff == palm_y - Val(lastY)
         IN  IF IntGt(Abs(x_diff), swipeTh) /\ Abs(x_diff) > Abs(y_diff)
             THEN [gesture |-> IF x_diff > 0 THEN SWIPE_RIGHT ELSE SWIPE_LEFT,
                   x |-> Some(palm_x), y |-> lastY]
             ELSE IF IntGt(Abs(y_diff), swipeTh) /\ Abs(y_diff) > Abs(x_diff)
             THEN [gesture |-> IF y_diff < 0 THEN SWIPE_UP ELSE SWIPE_DOWN,
                   x |-> lastX, y |-> Some(palm_y)]
             ELSE [gesture |-> g, x |-> lastX, y |-> lastY]

\* Mutant of StickyBaseline: a movement of 10 px is still followed.
StickyBaselineAt10(last, palm) ==
    IF IsNone(last) \/ Abs(palm - Val(last)) <= 10 THEN Some(palm) ELSE last

\* "Update tracking": a baseline follows the palm if unset or moved < 10 px.
StickyBaseline(last, palm) ==
    IF IsNone(last) \/ Abs(palm - Val(last)) < 10 THEN Some(palm) ELSE last

\* detect_gesture on classifier state c with thresholds th and frame f:
\* whether it raised, the gesture returned and the classifier state it leaves.
DetectGesture(c, th, f) ==
    IF LandmarksRaise(f.landmarks)
    THEN [raised |-> TRUE, gesture |-> NONE,
          last_rotation |-> c.last_rotation,
          rotation_accumulator |-> c.rotation_accumulator,
          last_palm_x |-> c.last_palm_x, last_palm_y |-> c.last_palm_y,
          last_palm_z |-> c.last_palm_z]
    ELSE
    LET g0 == ShapeGesture(f.openness, f.landmarks)
        g1 == DepthOverride(g0, c.last_palm_z, f.palm_z, th.depth)
        r  == RotationOverride(g1, c.last_rotation, c.rotation_accumulator,
                               f.rotation, th.rotation)
        s  == SwipeOverride(r.gesture, c.last_palm_x, c.last_palm_y,
                            f.palm_x, f.palm_y, th.swipe)
        sw == s.gesture \in Swipes
    IN  [raised |-> FALSE, gesture |-> s.gesture,
         last_rotation |-> Some(f.rotation),
         rotation_accumulator |-> r.acc,
         last_palm_x |-> IF sw THEN s.x ELSE StickyBaseline(s.x, f.palm_x),
         last_palm_y |-> IF sw THEN s.y ELSE StickyBaseline(s.y, f.palm_y),
         last_palm_z |-> Some(f.palm_z)]

\* The classifier fields and thresholds of the current state.
Classifier ==
    [last_rotation |-> last_rotation, rotation_accumulator |-> rotation_accumulator,
     last_palm_x |-> last_palm_x, last_palm_y |-> last_palm_y,
     last_palm_z |-> last_palm_z]
Thresholds ==
    [depth |-> depth_threshold, rotation |-> rotation_threshold,
     swipe |-> swipe_threshold]

----------------------------------------------------------------------------
(* The ActionSink: pyautogui and the Windows audio endpoint.               *)
(*                                                                         *)
(* A call is <<function, argument, number>>.  Any one call of a dispatch   *)
(* may raise: fail is the position (1, 2, ...) of the call that raises     *)
(* among the calls the dispatch attempts, 0 if none does.  An execution e  *)
(* carries the calls that went through, the number attempted, whether an   *)
(* exception is in flight (the rest of the try block is skipped), and the  *)
(* fields the try block assigns.                                           *)

Exec0 ==
    [calls |-> <<>>, attempts |-> 0, failed |-> FALSE, taken |-> FALSE,
     is_clicking |-> is_clicking, is_dragging |-> is_dragging]

Call(e, c, fail) ==
    IF e.failed THEN e
    ELSE IF e.attempts + 1 = fail
         THEN [e EXCEPT !.attempts = @ + 1, !.failed = TRUE]
         ELSE [e EXCEPT !.attempts = @ + 1, !.calls = Append(@, c)]

\* An assignment of the try block: skipped once an exception is in flight.
Taken(e) == IF e.failed THEN e ELSE [e EXCEPT !.taken = TRUE]
SetClicking(e, b) == IF e.failed THEN e ELSE [e EXCEPT !.is_clicking = b]
SetDragging(e, b) == IF e.failed THEN e ELSE [e EXCEPT !.is_dragging = b]

RECURSIVE PressTimes(_, _, _, _)
\* for _ in range(n): pyautogui.press(key)
PressTimes(e, key, n, fail) ==
    IF n = 0 THEN e ELSE PressTimes(Call(e, <<"press", key, 0>>, fail), key, n - 1, fail)

\* Mutant of AdjustVolume: the key presses follow the endpoint calls
\* ("if" for "elif").
AdjustVolumeBoth(e, change, hasEndpoint, fail) ==
    IF e.failed THEN e
    ELSE LET e1 == Call(e, <<"GetMasterVolumeLevelScalar", "", 0>>, fail)
             e2 == Call(e1, <<"SetMasterVolumeLevelScalar", "", change>>, fail)
             e3 == IF hasEndpoint THEN [e2 EXCEPT !.failed = FALSE] ELSE e
         IN  PressTimes(e3, IF change > 0 THEN "volumeup" ELSE "volumedown",
                        (Abs(change) * 20) \div 100, fail)

\* _adjust_volume(change), change in hundredths.  With the Windows endpoint
\* every exception is swallowed inside; otherwise int(abs(change) * 20) key
\* presses, whose exceptions reach the caller.
AdjustVolume(e, change, hasEndpoint, fail) ==
    IF e.failed THEN e
    ELSE IF hasEndpoint
    THEN LET e1 == Call(e, <<"GetMasterVolumeLevelScalar", "", 0>>, fail)
             e2 == Call(e1, <<"SetMasterVolumeLevelScalar", "", change>>, fail)
         IN  [e2 EXCEPT !.failed = FALSE]
    ELSE PressTimes(e, IF change > 0 THEN "volumeup" ELSE "volumedown",
                    (Abs(change) * 20) \div 100, fail)

\* The effect tables of the rate-gated modes: the call a gesture asks for,
\* <<"volume", "", change>> for _adjust_volume(change), <<>> for none.
MediaAction(g) ==
    CASE g = FIST -> <<"press", "playpause", 0>>
      [] g = OPEN_HAND -> <<"press", "playpause", 0>>
      [] g = ROTATE_LEFT -> <<"volume", "", -5>>
      [] g = ROTATE_RIGHT -> <<"volume", "", 5>>
      [] g = SWIPE_LEFT -> <<"press", "prevtrack", 0>>
      [] g = SWIPE_RIGHT -> <<"press", "nexttrack", 0>>
      [] g = SWIPE_UP -> <<"volume", "", 10>>
      [] g = SWIPE_DOWN -> <<"volume", "", -10>>
      [] g = PEACE -> <<"press", "space", 0>>
      [] g = THUMBS_UP -> <<"hotkey", "ctrl+up", 0>>
      [] OTHER -> <<>>

WindowAction(g) ==
    CASE g = SWIPE_LEFT -> <<"hotkey", "win+left", 0>>
      [] g = SWIPE_RIGHT -> <<"hotkey", "win+right", 0>>
      [] g = SWIPE_UP -> <<"hotkey", "win+up", 0>>
      [] g = SWIPE_DOWN -> <<"hotkey", "win+down", 0>>
      [] g = FIST -> <<"hotkey", "alt+f4", 0>>
      [] g = PEACE -> <<"hotkey", "alt+tab", 0>>
      [] g = OPEN_HAND -> <<"hotkey", "win+d", 0>>
      [] g = THUMBS_UP -> <<"hotkey", "win+tab", 0>>
      [] OTHER -> <<>>

PresentationAction(g) ==
    CASE g = SWIPE_RIGHT \/ g = POINTING -> <<"press", "right", 0>>
      [] g = SWIPE_LEFT -> <<"press", "left", 0>>
      [] g = FIST -> <<"press", "b", 0>>
      [] g = OPEN_HAND -> <<"press", "w", 0>>
      [] g = PEACE -> <<"press", "home", 0>>
      [] g = THUMBS_UP -> <<"press", "end", 0>>
      [] OTHER -> <<>>

\* Mutant of CooldownBlocks: the floor of the cooldown (0.3 s) instead of
\* the cooldown the sensitivity asks for.
CooldownBlocksFloor(t, lastAction, cooldown) == t - lastAction < 3

\* if now - self.last_action_time < self.cooldown_time: return False
CooldownBlocks(t, lastAction, cooldown) == IntLt(t - lastAction, cooldown)

\* The try block of a rate-gated mode for the table entry a: the call (or
\* the volume change), then action_taken = True.
GatedTry(e, a, hasEndpoint, fail) ==
    IF a = <<>> THEN e
    ELSE IF a[1] = "volume" THEN Taken(AdjustVolume(e, a[3], hasEndpoint, fail))
    ELSE Taken(Call(e, a, fail))

\* _media_control, _window_management, _presentation_control: the outcome
\* [taken, calls, last_action_time] of a dispatch at time t.
GatedControl(a, t, lastAction, cooldown, available, hasEndpoint, fail) ==
    IF CooldownBlocks(t, lastAction, cooldown) \/ ~available
    THEN [taken |-> FALSE, calls |-> <<>>, sink_raised |-> FALSE,
          last_action_time |-> lastAction]
    ELSE LET e == GatedTry(Exec0, a, hasEndpoint, fail)
         IN  [taken |-> e.taken, calls |-> e.calls,
              sink_raised |-> e.attempts > Len(e.calls),
              last_action_time |-> IF e.taken THEN t ELSE lastAction]

\* _mouse_control: the four statements of its try block, in order.  The
\* cursor target of moveTo depends on the host's cursor and screen, which
\* the controller does not own; the call is recorded without coordinates.
\* Mutant of MouseMoveOrClick: a pinch clicks whether or not is_clicking.
MouseMoveOrClickEvery(e, g, fail) ==
    IF e.failed THEN e
    ELSE IF g \in {OPEN_HAND, POINTING}
    THEN Taken(Call(Call(e, <<"position", "", 0>>, fail), <<"moveTo", "", 0>>, fail))
    ELSE IF g = PINCH
    THEN Taken(SetClicking(Call(e, <<"click", "", 0>>, fail), TRUE))
    ELSE SetClicking(e, FALSE)

MouseMoveOrClick(e, g, fail) ==
    IF e.failed THEN e
    ELSE IF g \in {OPEN_HAND, POINTING}
    THEN Taken(Call(Call(e, <<"position", "", 0>>, fail), <<"moveTo", "", 0>>, fail))
    ELSE IF g = PINCH
    THEN Taken(IF ~e.is_clicking
               THEN SetClicking(Call(e, <<"click", "", 0>>, fail), TRUE)
               ELSE e)
    ELSE SetClicking(e, FALSE)

MouseRightClick(e, g, fail) ==
    IF e.failed THEN e
    ELSE IF g = PEACE /\ ~e.is_clicking
    THEN Taken(SetClicking(Call(e, <<"rightClick", "", 0>>, fail), TRUE))
    ELSE e

\* Mutant of MouseScroll: the scroll amount is the distance itself.
MouseScrollSingle(e, g, palm_y, lastY, fail) ==
    IF e.failed THEN e
    ELSE IF g = FIST /\ ~IsNone(lastY)
    THEN LET scroll_amount == palm_y - Val(lastY)
         IN  IF Abs(scroll_amount) > 5
             THEN Taken(Call(e, <<"scroll", "", scroll_amount>>, fail))
             ELSE e
    ELSE e

\* lastY is self.last_palm_y as detect_gesture of the same frame left it.
MouseScroll(e, g, palm_y, lastY, fail) ==
    IF e.failed THEN e
    ELSE IF g = FIST /\ ~IsNone(lastY)
    THEN LET scroll_amount == (palm_y - Val(lastY)) * 2
         IN  IF Abs(scroll_amount) > 5
             THEN Taken(Call(e, <<"scroll", "", scroll_amount>>, fail))
             ELSE e
    ELSE e

MouseDrag(e, g, fail) ==
    IF e.failed THEN e
    ELSE IF g = THUMBS_UP
    THEN Taken(IF ~e.is_dragging
               THEN SetDragging(Call(e, <<"mouseDown", "", 0>>, fail), TRUE)
               ELSE e)
    ELSE IF e.is_dragging
    THEN SetDragging(Call(e, <<"mouseUp", "", 0>>, fail), FALSE)
    ELSE e

MouseControl(g, palm_y, lastY, available, fail) ==
    IF ~available THEN Exec0
    ELSE MouseDrag(MouseScroll(MouseRightClick(MouseMoveOrClick(Exec0, g, fail),
                                               g, fail),
                               g, palm_y, lastY, fail),
                   g, fail)

\* execute_action: the outcome of the dispatch of gesture g at time t.
ExecuteAction(m, g, palm_y, lastY, t, lastAction, cooldown, available, hasEndpoint, fail) ==
    IF m = MOUSE
    THEN LET e == MouseControl(g, palm_y, lastY, available, fail)
         IN  [taken |-> e.taken, calls |-> e.calls,
              sink_raised |-> e.attempts > Len(e.calls),
              last_action_time |-> lastAction,
              is_clicking |-> e.is_clicking, is_dragging |-> e.is_dragging]
    ELSE LET a == IF m = MEDIA THEN MediaAction(g)
                  ELSE IF m = WINDOW THEN WindowAction(g)
                  ELSE PresentationAction(g)
             r == GatedControl(a, t, lastAction, cooldown, available, hasEndpoint, fail)
         IN  [taken |-> r.taken, calls |-> r.calls, sink_raised |-> r.sink_raised,
              last_action_time |-> r.last_action_time,
              is_clicking |-> is_clicking, is_dragging |-> is_dragging]

\* hold_time = 0.2 if self.mode == ControlMode.MOUSE else 0.3
HoldTime(m) == IF m = MOUSE THEN 2 ELSE 3

\* Mutant of Actionable: only as the hold duration elapses, not after.
ActionableOnEdge(g, t, start, m) ==
    g # NONE /\ t - start > HoldTime(m) /\ t - start <= HoldTime(m) + 2

\* Mutant of Actionable: the hold duration itself is long enough.
ActionableAtHold(g, t, start, m) == g # NONE /\ t - start >= HoldTime(m)

\* gesture != NONE and time.time() - self.gesture_start_time > hold_time
Actionable(g, t, start, m) == g # NONE /\ t - start > HoldTime(m)

\* process_frame, lines 501-503: a new non-NONE gesture restarts the timer.
HoldGate(g, lastG, start, t) ==
    IF g # NONE /\ g # lastG
    THEN [last_gesture |-> g, gesture_start_time |-> t]
    ELSE [last_gesture |-> lastG, gesture_start_time |-> start]

\* Mutant of ResetFields: reset_state forgets the X baseline.
ResetKeepsPalmX ==
    [last_palm_x |-> last_palm_x, last_palm_y |-> None, last_palm_z |-> None,
     last_rotation |-> None, rotation_accumulator |-> 0,
     is_clicking |-> FALSE, is_dragging |-> FALSE]

\* reset_state: the fields it assigns (mouse_anchor is never read).
ResetFields ==
    [last_palm_x |-> None, last_palm_y |-> None, last_palm_z |-> None,
     last_rotation |-> None, rotation_accumulator |-> 0,
     is_clicking |-> FALSE, is_dragging |-> FALSE]

----------------------------------------------------------------------------
(* Bounds and inputs *)

\* The clock at construction, in tenths of a second; time.time() is far
\* larger than any cooldown, and last_action_time starts at 0.
Epoch == 30
\* The clock runs up to Epoch + MaxTime.
MaxTime == 7
\* Between two calls the clock advances by 0..MaxStep.
MaxStep == 2
\* The failing call of a dispatch is one of the first MaxFail, or none.
MaxFail == 2

\* A hand of 21 landmarks with the given fingers extended; with pinch the
\* thumb tip sits on the index tip.
HandPose(thumb, index, middle, ring, pinky, pinch) ==
    LET tipY(ext) == IF ext THEN 40 ELSE 50
        indexTip == <<55, tipY(index)>>
    IN  [i \in 1..21 |->
           CASE i = 3 -> <<40, 60>>
             [] i = 5 -> IF pinch THEN <<indexTip[1] + 1, indexTip[2] + 1>>
                         ELSE IF thumb THEN <<50, 60>> ELSE <<42, 60>>
             [] i = 9 -> indexTip
             [] i = 13 -> <<60, tipY(middle)>>
             [] i = 17 -> <<65, tipY(ring)>>
             [] i = 21 -> <<70, tipY(pinky)>>
             [] OTHER -> <<50 + i, 50>>]

PoseClosed == HandPose(FALSE, FALSE, FALSE, FALSE, FALSE, FALSE)
PoseOpen == HandPose(TRUE, TRUE, TRUE, TRUE, TRUE, FALSE)
PoseThumb == HandPose(TRUE, FALSE, FALSE, FALSE, FALSE, FALSE)
PoseIndex == HandPose(FALSE, TRUE, FALSE, FALSE, FALSE, FALSE)
PosePeace == HandPose(FALSE, TRUE, TRUE, FALSE, FALSE, FALSE)
PosePinch == HandPose(FALSE, FALSE, FALSE, FALSE, FALSE, TRUE)
\* Landmarks cut short: the first n points of a hand.
Incomplete(n) == SubSeq(PoseClosed, 1, n)

Frame(o, r, x, y, z, l) ==
    [openness |-> o, rotation |-> r, palm_x |-> x, palm_y |-> y, palm_z |-> z,
     landmarks |-> l]

\* The frames of the rate-gate specification: a fist at three palm angles
\* 120 degrees apart (a turn from one to the next crosses the rotation
\* threshold at every sensitivity) and a neutral hand.
GateFrames ==
    {Frame(10, 0, 320, 100, 0, PoseClosed), Frame(10, 120, 320, 100, 0, PoseClosed),
     Frame(10, 240, 320, 100, 0, PoseClosed), Frame(50, 0, 320, 100, 0, PoseClosed)}

\* The values set_sensitivity is called with, in tenths.
GateSensitivities == {10, 30}

\* The frames of the dispatch specification: every hand shape, a fist moved
\* 20 px down (a scroll, no swipe), a fist at the three palm angles, a
\* neutral hand a swipe further down and a neutral hand a pull further away.
DispatchFrames ==
    {Frame(10, 0, 320, 100, 0, PoseClosed), Frame(90, 0, 320, 100, 0, PoseOpen),
     Frame(50, 0, 320, 100, 0, PoseClosed), Frame(50, 0, 320, 100, 0, PoseThumb),
     Frame(50, 0, 320, 100, 0, PoseIndex), Frame(50, 0, 320, 100, 0, PosePeace),
     Frame(50, 0, 320, 100, 0, PosePinch), Frame(10, 0, 320, 120, 0, PoseClosed),
     Frame(10, 120, 320, 100, 0, PoseClosed), Frame(10, 240, 320, 100, 0, PoseClosed),
     Frame(50, 0, 320, 250, 0, PoseClosed), Frame(50, 0, 320, 100, 20, PoseClosed)}
\* The frames of the classifier specification: a neutral hand at palm angles
\* that add up to a turn or wrap around, and a fist at one more; a neutral
\* hand at palm positions a swipe apart on either axis and depths a push
\* apart; turned, moved and pushed at once; and a hand whose landmarks stop
\* one point short.
ClassifyFrames ==
    {Frame(50, r, 320, 100, 0, PoseClosed) : r \in {0, 40, 350}}
    \cup {Frame(10, 20, 320, 100, 0, PoseClosed)}
    \cup {Frame(50, 0, x, y, z, PoseClosed) :
              x \in {320, 440}, y \in {100, 250}, z \in {0, 20}}
    \cup {Frame(50, 40, 440, 100, 20, PoseClosed),
          Frame(50, 0, 320, 100, 0, Incomplete(20))}

\* The values the sensitivity is constructed with and set to in the tuning
\* specification, in tenths: the ends of the range and the default; and
\* every tenth from below the range to above it.
InitialSensitivities == {3, 10, 30}
TuneSensitivities == -5 .. 35
\* The frames of the tuning specification: a fist, held or turned.
TuneFrames ==
    {Frame(10, 0, 320, 100, 0, PoseClosed), Frame(10, 120, 320, 100, 0, PoseClosed)}

\* The frames of the mouse specification: the hand shapes Mouse mode acts on
\* and a neutral hand, all in one place.
MouseFrames ==
    {Frame(90, 0, 320, 100, 0, PoseOpen), Frame(50, 0, 320, 100, 0, PoseIndex),
     Frame(50, 0, 320, 100, 0, PosePeace), Frame(50, 0, 320, 100, 0, PosePinch),
     Frame(50, 0, 320, 100, 0, PoseThumb), Frame(10, 0, 320, 100, 0, PoseClosed),
     Frame(50, 0, 320, 100, 0, PoseClosed)}

\* The frames of the shape specification: every combination of extended
\* fingers, with and without a pinch, at a low, a middle and a high openness,
\* all in one place, so that no depth, rotation or swipe rule fires.
ShapeFrames ==
    {Frame(o, 0, 320, 100, 0, HandPose(t, i, m, r, p, pinch)) :
        o \in {10, 50, 90}, t \in BOOLEAN, i \in BOOLEAN, m \in BOOLEAN,
        r \in BOOLEAN, p \in BOOLEAN, pinch \in BOOLEAN}

\* The frames of the rotation specification: a neutral hand in one place at
\* palm angles 10 degrees apart, one 15 degrees from the first, angles half
\* a turn apart and one across the wrap-around.
RotateFrames ==
    {Frame(50, r, 320, 100, 0, PoseClosed) :
        r \in {0, 10, 15, 20, 30, 40, 180, 190, 350}}

\* The frames of the baseline specification: a neutral hand at palm
\* positions 9 px, 10 px and a swipe apart on either axis.
StickyFrames ==
    {Frame(50, 0, x, y, 0, PoseClosed) :
        x \in {320, 329, 330, 440}, y \in {100, 109, 110, 250}}

\* The frames of the scroll specification: a fist at heights 9 px, 10 px,
\* 20 px and a swipe apart, and an open hand.
ScrollFrames ==
    {Frame(10, 0, 320, y, 0, PoseClosed) : y \in {100, 109, 110, 120, 250}}
    \cup {Frame(90, 0, 320, 100, 0, PoseOpen)}

\* The frames of a hand held still: a fist, an open hand, a neutral hand.
LiveFrames ==
    {Frame(10, 0, 320, 100, 0, PoseClosed), Frame(90, 0, 320, 100, 0, PoseOpen),
     Frame(50, 0, 320, 100, 0, PoseClosed)}
\* Two frames follow each other within 0..MaxStep tenths of a second, and
\* the clock keeps advancing: again and again by a tenth or more.
LiveSteps == 1 .. MaxStep

\* The steps of the clock in the dispatch specification: none, or 0.3 s,
\* which is longer than the Mouse hold duration and exactly the hold duration
\* of the other modes, so that these dispatch after two steps.
DispatchSteps == {0, 3}

----------------------------------------------------------------------------
(* The state machine *)

\* What a call leaves for the properties to read: whether it raised, whether
\* its landmarks were incomplete, the gesture classified, whether
\* execute_action was called and what it returned, the ActionSink calls that
\* went through, and whether one of the calls attempted raised.
Ret(op, raised, incomplete, g, dispatched, taken, calls, sinkRaised) ==
    [op |-> op, raised |-> raised, incomplete |-> incomplete, gesture |-> g,
     dispatched |-> dispatched, taken |-> taken, calls |-> calls,
     sink_raised |-> sinkRaised]

NoRet(op) == Ret(op, FALSE, FALSE, NONE, FALSE, FALSE, <<>>, FALSE)

\* The history the properties read.  Kept by process_frame and the loop:
\*   prev_gesture  what the previous loop iteration classified ("absent":
\*                 none yet, no hand in view, or the call raised)
\*   tu_ended      a run of THUMBS_UP frames has just ended, by a frame
\*                 classified otherwise or by the hand leaving the view
\*   downs, ups    mouseDown / mouseUp calls since the current run of
\*                 THUMBS_UP frames began or the mode was set (capped at 2)
\*   last_fired    when a rate-gated dispatch last returned action_taken
\*   switched      set_mode was called since last_fired
\*   across        the last rate-gated effect followed an earlier one with
\*                 a set_mode in between
Hist0 ==
    [prev_gesture |-> "absent", tu_ended |-> FALSE,
     downs |-> 0, ups |-> 0, last_fired |-> None, switched |-> FALSE,
     across |-> FALSE]

\* The history of the resets, kept in the dispatch specification only:
\*   fresh         set_mode or reset_state was called and detect_gesture has
\*                 not returned since
\*   stale         the classifier state that reset cleared, until
\*                 detect_gesture returns
\*   stale_gesture what the first detect_gesture after the reset would have
\*                 returned from the stale state (NONE on every later call)
\*   run_start     since when every loop iteration has been a process_frame
\*                 call classified as the last one was (unset after an
\*                 iteration without a hand, a call that raised, or a reset)
\*   prev_dispatch the gesture execute_action was last called with since the
\*                 last reset (NONE: not called since, or its last call
\*                 had an ActionSink call raise)
\*   held          the last mouseDown or mouseUp the ActionSink received
\*                 was a mouseDown
\*   effects       the calls of process_frame that reported an effect since
\*                 the gesture classified last changed (capped at 2)
\* and the last call of process_frame, kept in the classifier specification
\* only:
\*   frame         the frame it was called with
\*   before        the classifier state it found
NoStale ==
    [last_rotation |-> None, rotation_accumulator |-> 0, last_palm_x |-> None,
     last_palm_y |-> None, last_palm_z |-> None]
Probe0 ==
    [fresh |-> FALSE, stale |-> NoStale, stale_gesture |-> NONE,
     run_start |-> None, prev_dispatch |-> NONE, held |-> FALSE,
     effects |-> 0, frame |-> None, before |-> NoStale]

Count(calls, fn) == Cardinality({i \in 1..Len(calls) : calls[i][1] = fn})
Cap2(n) == IF n > 2 THEN 2 ELSE n

\* The state after construction in mode m with sensitivity s (not clamped
\* by __init__), volume endpoint present or not, pyautogui present or not.
InitWith(m, s, endpoints, availabilities) ==
    /\ mode = m
    /\ sensitivity = s
    /\ cooldown_time = CooldownOf(s)
    /\ rotation_threshold = RotationThresholdOf(s)
    /\ swipe_threshold = SwipeThresholdOf(s)
    /\ depth_threshold = DepthThresholdOf(s)
    /\ last_gesture = NONE
    /\ gesture_start_time = Epoch
    /\ last_action_time = 0
    /\ last_rotation = None
    /\ rotation_accumulator = 0
    /\ last_palm_x = None
    /\ last_palm_y = None
    /\ last_palm_z = None
    /\ is_clicking = FALSE
    /\ is_dragging = FALSE
    /\ volume_control \in endpoints
    /\ PYAUTOGUI_AVAILABLE \in availabilities
    /\ now = Epoch
    /\ ret = NoRet("init")
    /\ hist = Hist0
    /\ probe = Probe0

\* main.py builds the controller in MEDIA mode with sensitivity 1.0.
Init == InitWith(MEDIA, 10, BOOLEAN, BOOLEAN)

\* process_frame(f) called dt after the previous call; fail is the sink
\* call that raises, if the frame is dispatched.  One reading of the clock
\* stands for the time.time() calls of one frame (microseconds apart).
ProcessFrame(f, dt) ==
    /\ now + dt <= Epoch + MaxTime
    /\ now' = now + dt
    /\ \E d \in {DetectGesture(Classifier, Thresholds, f)} :
       \E h \in {HoldGate(d.gesture, last_gesture, gesture_start_time, now')} :
       \E go \in {~d.raised /\ Actionable(d.gesture, now', h.gesture_start_time, mode)} :
       \E fail \in IF go THEN 0..MaxFail ELSE {0} :
       \E x \in {IF go
                 THEN ExecuteAction(mode, d.gesture, f.palm_y, d.last_palm_y, now',
                                    last_action_time, cooldown_time,
                                    PYAUTOGUI_AVAILABLE, volume_control, fail)
                 ELSE [taken |-> FALSE, calls |-> <<>>, sink_raised |-> FALSE,
                       last_action_time |-> last_action_time,
                       is_clicking |-> is_clicking, is_dragging |-> is_dragging]} :
       LET g == d.gesture
           seen == IF d.raised THEN "absent" ELSE g
           inRun == seen = THUMBS_UP /\ hist.prev_gesture = THUMBS_UP
           endRun == seen # THUMBS_UP /\ hist.prev_gesture = THUMBS_UP
           fired == x.taken /\ mode # MOUSE
       IN  /\ last_rotation' = d.last_rotation
           /\ rotation_accumulator' = d.rotation_accumulator
           /\ last_palm_x' = d.last_palm_x
           /\ last_palm_y' = d.last_palm_y
           /\ last_palm_z' = d.last_palm_z
           /\ last_gesture' = IF d.raised THEN last_gesture ELSE h.last_gesture
           /\ gesture_start_time' =
                  IF d.raised THEN gesture_start_time ELSE h.gesture_start_time
           /\ last_action_time' = x.last_action_time
           /\ is_clicking' = x.is_clicking
           /\ is_dragging' = x.is_dragging
           /\ ret' = Ret("process_frame", d.raised, Len(f.landmarks) < 21, g, go,
                         x.taken, x.calls, x.sink_raised)
           /\ hist' =
                [hist EXCEPT
                 !.prev_gesture = seen,
                 !.tu_ended = endRun,
                 !.downs = IF inRun \/ endRun
                           THEN Cap2(hist.downs + Count(x.calls, "mouseDown"))
                           ELSE IF seen = THUMBS_UP THEN Count(x.calls, "mouseDown")
                           ELSE 0,
                 !.ups = IF inRun \/ endRun
                         THEN Cap2(hist.ups + Count(x.calls, "mouseUp"))
                         ELSE IF seen = THUMBS_UP THEN Count(x.calls, "mouseUp")
                         ELSE 0,
                 !.last_fired = IF fired THEN Some(now') ELSE @,
                 !.switched = IF fired THEN FALSE ELSE @,
                 !.across = fired /\ hist.switched]
    /\ UNCHANGED <<mode, sensitivity, cooldown_time, rotation_threshold,
                   swipe_threshold, depth_threshold, volume_control,
                   PYAUTOGUI_AVAILABLE>>

\* A loop iteration of main.py with no hand in view (or control disabled):
\* process_frame is not called and time passes.
NoHand(dt) ==
    /\ now + dt <= Epoch + MaxTime
    /\ now' = now + dt
    /\ ret' = NoRet("no_hand")
    /\ hist' = [hist EXCEPT !.prev_gesture = "absent",
                            !.tu_ended = (hist.prev_gesture = THUMBS_UP),
                            !.across = FALSE,
                            !.downs = IF hist.prev_gesture = THUMBS_UP THEN @ ELSE 0,
                            !.ups = IF hist.prev_gesture = THUMBS_UP THEN @ ELSE 0]
    /\ UNCHANGED <<mode, sensitivity, cooldown_time, rotation_threshold,
                   swipe_threshold, depth_threshold, last_gesture,
                   gesture_start_time, last_action_time, last_rotation,
                   rotation_accumulator, last_palm_x, last_palm_y, last_palm_z,
                   is_clicking, is_dragging, volume_control, PYAUTOGUI_AVAILABLE>>

\* reset_state
ResetState ==
    /\ last_palm_x' = ResetFields.last_palm_x
    /\ last_palm_y' = ResetFields.last_palm_y
    /\ last_palm_z' = ResetFields.last_palm_z
    /\ last_rotation' = ResetFields.last_rotation
    /\ rotation_accumulator' = ResetFields.rotation_accumulator
    /\ is_clicking' = ResetFields.is_clicking
    /\ is_dragging' = ResetFields.is_dragging
    /\ UNCHANGED <<sensitivity, cooldown_time, rotation_threshold,
                   swipe_threshold, depth_threshold, last_gesture,
                   gesture_start_time, last_action_time, volume_control,
                   PYAUTOGUI_AVAILABLE, now>>

\* set_mode(m)
SetModeTo(m) == mode' = m /\ ResetState

HistAfterReset ==
    [hist EXCEPT !.tu_ended = FALSE, !.downs = 0, !.ups = 0, !.across = FALSE]

\* reset_state called on its own, between frames
ResetCall ==
    /\ ResetState
    /\ UNCHANGED mode
    /\ ret' = NoRet("reset_state")
    /\ hist' = HistAfterReset

\* set_mode(m) called between frames
SetMode(m) ==
    /\ SetModeTo(m)
    /\ ret' = NoRet("set_mode")
    /\ hist' = [HistAfterReset EXCEPT !.switched = ~IsNone(hist.last_fired)]

\* set_sensitivity(v)
SetSensitivity(v) ==
    /\ sensitivity' = ClampSensitivity(v)
    /\ cooldown_time' = CooldownOf(sensitivity')
    /\ rotation_threshold' = RotationThresholdOf(sensitivity')
    /\ swipe_threshold' = SwipeThresholdOf(sensitivity')
    /\ depth_threshold' = DepthThresholdOf(sensitivity')
    /\ ret' = NoRet("set_sensitivity")
    /\ hist' = [hist EXCEPT !.tu_ended = FALSE, !.across = FALSE]
    /\ UNCHANGED <<mode, last_gesture, gesture_start_time, last_action_time,
                   last_rotation, rotation_accumulator, last_palm_x, last_palm_y,
                   last_palm_z, is_clicking, is_dragging, volume_control,
                   PYAUTOGUI_AVAILABLE, now>>

\* The modes whose effects _media_control, _window_management and
\* _presentation_control gate by the cooldown.
RateGatedModes == {MEDIA, WINDOW, PRESENTATION}

\* The handlers with their inputs drawn from given sets.
Frames(F, D) == \E f \in F, dt \in D : ProcessFrame(f, dt) /\ UNCHANGED probe
Absent(D) == \E dt \in D : NoHand(dt) /\ UNCHANGED probe
Modes(M) == \E m \in M : SetMode(m) /\ UNCHANGED probe
Sensitivities(S) == \E v \in S : SetSensitivity(v) /\ UNCHANGED probe
Reset == ResetCall /\ UNCHANGED probe

\* The '+' and '-' keys of main.py: set_sensitivity(sensitivity +- 0.2)
Nudges ==
    \E v \in {sensitivity + 2, sensitivity - 2} : SetSensitivity(v) /\ UNCHANGED probe

\* The same handlers with the history of the resets kept.
ProbeAfterReset ==
    [probe EXCEPT !.fresh = TRUE,
                  !.stale = IF probe.fresh THEN @ ELSE Classifier,
                  !.stale_gesture = NONE,
                  !.run_start = None,
                  !.prev_dispatch = NONE]
ProbeAfterFrame(f) ==
    IF LandmarksRaise(f.landmarks) THEN [probe EXCEPT !.run_start = None]
    ELSE [probe EXCEPT
          !.fresh = FALSE, !.stale = NoStale,
          !.stale_gesture = IF probe.fresh
                            THEN DetectGesture(probe.stale, Thresholds, f).gesture
                            ELSE NONE,
          !.run_start = IF ~IsNone(@) /\ ret.op = "process_frame"
                           /\ ret.gesture = ret'.gesture
                        THEN @ ELSE Some(now')]
ProbedFrames(F, D) ==
    \E f \in F, dt \in D : ProcessFrame(f, dt) /\ probe' = ProbeAfterFrame(f)
ProbedAbsent(D) == \E dt \in D : NoHand(dt) /\ probe' = [probe EXCEPT !.run_start = None]
ProbedModes(M) == \E m \in M : SetMode(m) /\ probe' = ProbeAfterReset
ProbedReset == ResetCall /\ probe' = ProbeAfterReset

\* process_frame with the gesture of the last dispatch and the state of the
\* mouse button kept (a dispatch makes at most one of mouseDown and mouseUp).
DispatchedFrames(F, D) ==
    \E f \in F, dt \in D :
        /\ ProcessFrame(f, dt)
        /\ probe' = [probe EXCEPT
                       !.prev_dispatch = IF ~ret'.dispatched THEN @
                                         ELSE IF ret'.sink_raised THEN NONE
                                         ELSE ret'.gesture,
                       !.held = IF Count(ret'.calls, "mouseDown") > 0 THEN TRUE
                                ELSE IF Count(ret'.calls, "mouseUp") > 0 THEN FALSE
                                ELSE @]

\* process_frame with the effects of the gesture held counted.
HeldFrames(F, D) ==
    \E f \in F, dt \in D :
        /\ ProcessFrame(f, dt)
        /\ probe' = [probe EXCEPT
                       !.effects =
                           LET n == IF ret'.taken THEN 1 ELSE 0
                           IN  IF ret.op = "process_frame" /\ ret.gesture = ret'.gesture
                               THEN Cap2(@ + n) ELSE n]

\* process_frame with its argument and the classifier state it found kept.
TracedFrames(F, D) ==
    \E f \in F, dt \in D :
        /\ ProcessFrame(f, dt)
        /\ probe' = [probe EXCEPT !.frame = Some(f), !.before = Classifier]

\* The controller under the rate gate: every mode, both sensitivities, any
\* sink call failing, the clock advancing in steps of a tenth of a second.
Next ==
    \/ Frames(GateFrames, 0..MaxStep)
    \/ Modes(ControlMode)
    \/ Sensitivities(GateSensitivities)
    \/ Reset

Spec == Init /\ [][Next]_vars

\* The dispatcher under every hand shape and every mode.
NextDispatch ==
    \/ ProbedFrames(DispatchFrames, DispatchSteps)
    \/ ProbedAbsent(DispatchSteps \ {0})
    \/ ProbedModes(ControlMode)
    \/ ProbedReset

SpecDispatch == Init /\ [][NextDispatch]_vars

\* The classifier under frames that move, turn and approach, with mode
\* switches, resets and sensitivity changes between them; the clock stands
\* still, so no frame is dispatched.
NextClassify ==
    \/ TracedFrames(ClassifyFrames, {0})
    \/ Modes({MEDIA, WINDOW})
    \/ Sensitivities(GateSensitivities)
    \/ Reset

SpecClassify == Init /\ [][NextClassify]_vars

\* Mouse mode under every hand shape it acts on, with resets in between.
NextMouse ==
    \/ DispatchedFrames(MouseFrames, DispatchSteps)
    \/ ProbedModes({MOUSE})
    \/ ProbedReset

SpecMouse == Init /\ [][NextMouse]_vars

\* The classifier under every hand shape, the hand staying where it is.
NextShape ==
    \/ TracedFrames(ShapeFrames, {0})
    \/ Reset

SpecShape == Init /\ [][NextShape]_vars

\* The classifier under a hand that turns in place, at both sensitivities.
NextRotate ==
    \/ TracedFrames(RotateFrames, {0})
    \/ Sensitivities(GateSensitivities)
    \/ Reset

SpecRotate == Init /\ [][NextRotate]_vars

\* The classifier under a hand that drifts and swipes, with resets.
NextSticky ==
    \/ TracedFrames(StickyFrames, {0})
    \/ Reset

SpecSticky == Init /\ [][NextSticky]_vars

\* Mouse mode under a fist that moves up and down.
NextScroll ==
    \/ TracedFrames(ScrollFrames, DispatchSteps)
    \/ Modes({MOUSE})

SpecScroll == Init /\ [][NextScroll]_vars

\* The rate-gated modes under a hand held still in front of a camera that
\* keeps delivering frames: main.py's loop (while True) reads a frame and
\* calls process_frame on every iteration, and the clock advances between
\* two iterations, until the horizon of the model.  The sensitivity is 3.0
\* (cooldown 0.3 s), so that two effects of one gesture fit the horizon; no
\* volume endpoint (the effects of a hand held still do not use it).
InitLive == InitWith(MEDIA, 30, {FALSE}, BOOLEAN)

NextLive ==
    \/ HeldFrames(LiveFrames, 0 .. MaxStep)
    \/ Modes(RateGatedModes)

SpecLive ==
    InitLive /\ [][NextLive]_vars /\ WF_vars(HeldFrames(LiveFrames, LiveSteps))

\* The controller under changes of sensitivity: constructed with any
\* sensitivity of the range, then tuned by the keys or set to values outside
\* the range, between frames and mode switches.
InitTune ==
    \E s \in InitialSensitivities : InitWith(MEDIA, s, {FALSE}, {TRUE})

NextTune ==
    \/ Frames(TuneFrames, DispatchSteps)
    \/ Modes({MEDIA, MOUSE})
    \/ Sensitivities(TuneSensitivities)
    \/ Nudges

SpecTune == InitTune /\ [][NextTune]_vars

----------------------------------------------------------------------------
(* Properties *)

RateGated == {MEDIA, WINDOW, PRESENTATION}
\* The step is a call of process_frame.
FrameStep == ret'.op = "process_frame"

\* C1: in a rate-gated mode a dispatch reaches the ActionSink, or reports an
\* effect (action_taken), only if now - last_action_time >= cooldown_time for
\* the cooldown in force at that call; a reported effect sets last_action_time
\* to now; and it comes at least cooldown_time after the previous reported
\* rate-gated effect, whatever set_mode, set_sensitivity and reset_state calls
\* lie between the two.
C1_RateGate ==
    [][(FrameStep /\ ret'.dispatched /\ mode \in RateGated) =>
         /\ (ret'.calls # <<>> \/ ret'.taken) =>
                (now' - last_action_time) * cooldown_time[2] >= cooldown_time[1]
         /\ ret'.taken => last_action_time' = now'
         /\ (ret'.taken /\ ~IsNone(hist.last_fired)) =>
                (now' - Val(hist.last_fired)) * cooldown_time[2] >= cooldown_time[1]
      ]_vars

\* C1 witness: a second rate-gated effect has fired, with a set_mode between
\* it and the one before.
C1_Witness ==
    /\ ret.op = "process_frame" /\ ret.taken /\ mode \in RateGated
    /\ hist.across

\* C2: process_frame calls execute_action only for a gesture other than NONE
\* held strictly longer than the hold duration (0.2 s in Mouse mode, 0.3 s in
\* the others), and makes no ActionSink call otherwise; a frame whose gesture
\* is not NONE and differs from last_gesture restarts the timer at now,
\* becomes last_gesture, is not dispatched and takes no action.
C2_HoldGate ==
    [][FrameStep =>
         /\ ret'.dispatched =>
                /\ ret'.gesture # NONE
                /\ now' - gesture_start_time' > (IF mode = MOUSE THEN 2 ELSE 3)
         /\ (ret'.calls # <<>> \/ ret'.taken) => ret'.dispatched
         /\ (~ret'.raised /\ ret'.gesture # NONE /\ ret'.gesture # last_gesture) =>
                /\ gesture_start_time' = now'
                /\ last_gesture' = ret'.gesture
                /\ ~ret'.dispatched /\ ret'.calls = <<>> /\ ~ret'.taken
      ]_vars

\* C2 witness: a frame dispatched in Mouse mode 0.3 s after its gesture
\* began, a moment too early for the other modes.
C2_Witness ==
    /\ ret.op = "process_frame" /\ ret.dispatched /\ mode = MOUSE
    /\ now - gesture_start_time = 3

\* C3: a frame is dispatched only if its gesture was recognised continuously
\* for the hold duration: not right after a loop iteration without a hand,
\* and not when the call before it, no longer ago than the hold duration,
\* was classified otherwise.
C3_HeldContinuously ==
    [][(FrameStep /\ ret'.dispatched) =>
         /\ ret.op # "no_hand"
         /\ (ret.op = "process_frame" /\ now' - now <= HoldTime(mode)) =>
                (~ret.raised /\ ret.gesture = ret'.gesture)
      ]_vars

Resets == {"set_mode", "reset_state"}

\* C4: set_mode and reset_state empty the hold-time state, so the first
\* process_frame after them fires no effect, whatever was held before: its
\* gesture has to be held again.
C4_SwitchRestartsHold ==
    [][(ret.op \in Resets /\ FrameStep) => (ret'.calls = <<>> /\ ~ret'.taken)]_vars

Moves == Swipes \cup {ROTATE_LEFT, ROTATE_RIGHT, PALM_PUSH, PALM_PULL}

\* C5: set_mode and reset_state leave the four baselines unset, the rotation
\* accumulator 0 and both mouse flags false, and the first detect_gesture
\* that returns after them returns no swipe, rotation, push or pull.
C5_ResetClearsTracking ==
    [][/\ ret'.op \in Resets =>
              /\ last_palm_x' = None /\ last_palm_y' = None /\ last_palm_z' = None
              /\ last_rotation' = None /\ rotation_accumulator' = 0
              /\ ~is_clicking' /\ ~is_dragging'
       /\ (probe.fresh /\ FrameStep /\ ~ret'.raised) => ret'.gesture \notin Moves
      ]_vars

\* C5 witness: the first frame after a reset, which the state before the
\* reset would have classified as a swipe, rotation, push or pull.
C5_Witness ==
    /\ ret.op = "process_frame" /\ ~ret.raised
    /\ probe.stale_gesture \in Moves
    /\ ret.gesture \notin Moves

\* C6: in Mouse mode, when a run of THUMBS_UP frames that started a drag has
\* ended (by a frame classified otherwise or by the hand leaving the view),
\* the ActionSink has received exactly one mouseDown and one mouseUp.
C6_DragReleased ==
    (hist.tu_ended /\ mode = MOUSE /\ hist.downs >= 1) =>
        (hist.downs = 1 /\ hist.ups = 1)

\* The calls of a dispatch that change the host (position() only reads).
SinkCalls == SelectSeq(ret.calls, LAMBDA c : c[1] # "position")
MouseEffects == {"moveTo", "click", "rightClick", "scroll", "mouseDown"}
VolumeCalls ==
    {"GetMasterVolumeLevelScalar", "SetMasterVolumeLevelScalar"}
IsVolumeCall(c) ==
    c[1] \in VolumeCalls \/ (c[1] = "press" /\ c[2] \in {"volumeup", "volumedown"})
Dispatched == ret.op = "process_frame" /\ ret.dispatched

\* C7 as claimed: a dispatch makes zero or one ActionSink calls.
C7_AtMostOneCall == Dispatched => Len(SinkCalls) <= 1

\* C7 as amended: a dispatch in Window or Presentation mode makes at most
\* one ActionSink call; in Media mode at most one, or two that are both part
\* of one volume adjustment; in Mouse mode at most one of moveTo, click,
\* rightClick, scroll and mouseDown, after at most one position query, and
\* then at most one mouseUp, never after a mouseDown.
C7_CallsPerDispatch ==
    Dispatched =>
        /\ mode \in {WINDOW, PRESENTATION} => Len(ret.calls) <= 1
        /\ mode = MEDIA =>
               /\ Len(ret.calls) <= 2
               /\ Len(ret.calls) = 2 => \A i \in 1..2 : IsVolumeCall(ret.calls[i])
        /\ mode = MOUSE =>
               /\ Cardinality({i \in 1..Len(ret.calls) :
                                  ret.calls[i][1] \in MouseEffects}) <= 1
               /\ Count(ret.calls, "position") <= 1
               /\ Count(ret.calls, "mouseUp") <= 1
               /\ Count(ret.calls, "mouseDown") + Count(ret.calls, "mouseUp") <= 1
               /\ \A i \in 1..Len(ret.calls) :
                      ret.calls[i][1] \in MouseEffects \cup {"position", "mouseUp"}

\* C7 witness: a Mouse dispatch that clicked and released a drag.
C7_Witness ==
    /\ Dispatched /\ mode = MOUSE
    /\ Count(ret.calls, "click") = 1 /\ Count(ret.calls, "mouseUp") = 1

\* C8: when an ActionSink call of a rate-gated dispatch raises, the dispatch
\* returns action_taken = False and leaves last_action_time unchanged.
C8_FailedEffectNotTaken ==
    [][(FrameStep /\ ret'.dispatched /\ mode \in RateGated /\ ret'.sink_raised) =>
         (~ret'.taken /\ last_action_time' = last_action_time)
      ]_vars

\* C9: detect_gesture on fewer than 21 landmarks returns NONE normally and
\* leaves the rotation and position baselines and the accumulator as they were.
C9_IncompleteIsNone ==
    [][(FrameStep /\ ret'.incomplete) =>
         /\ ~ret'.raised /\ ret'.gesture = NONE
         /\ UNCHANGED <<last_rotation, rotation_accumulator, last_palm_x,
                        last_palm_y, last_palm_z>>
      ]_vars

\* C10: when detect_gesture returns ROTATE_LEFT or ROTATE_RIGHT the rotation
\* accumulator is 0.
C10_RotateClearsAccumulator ==
    (ret.op = "process_frame" /\ ~ret.raised
       /\ ret.gesture \in {ROTATE_LEFT, ROTATE_RIGHT}) =>
        rotation_accumulator = 0

\* C10 witness: a turn to the left was returned on a frame at 350 degrees,
\* across the wrap-around.
C10_Witness ==
    /\ ret.op = "process_frame" /\ ret.gesture = ROTATE_LEFT
    /\ last_rotation = Some(350)

----------------------------------------------------------------------------
(* The classifier, call by call *)

\* The last call was a detect_gesture that returned.
Classified == ret.op = "process_frame" /\ ~ret.raised /\ ~IsNone(probe.frame)
\* Its frame, and the differences it took against the baselines it found
\* (0 against a baseline that was not set).
TheFrame == Val(probe.frame)
XDiff == IF IsNone(probe.before.last_palm_x) THEN 0
         ELSE TheFrame.palm_x - Val(probe.before.last_palm_x)
YDiff == IF IsNone(probe.before.last_palm_y) THEN 0
         ELSE TheFrame.palm_y - Val(probe.before.last_palm_y)
ZDiff == IF IsNone(probe.before.last_palm_z) THEN 0
         ELSE TheFrame.palm_z - Val(probe.before.last_palm_z)
\* The sum of the accumulator it found and the turn since the last frame,
\* taken the short way round.
TurnSum ==
    IF IsNone(probe.before.last_rotation) THEN 0
    ELSE LET d == TheFrame.rotation - Val(probe.before.last_rotation)
         IN  probe.before.rotation_accumulator
               + (CHOOSE k \in {d - 360, d, d + 360} : -180 <= k /\ k <= 180
                      /\ (Abs(d) <= 180 => k = d))
XYBaselines == ~IsNone(probe.before.last_palm_x) /\ ~IsNone(probe.before.last_palm_y)
SwipeXHolds ==
    XYBaselines /\ Abs(XDiff) * swipe_threshold[2] > swipe_threshold[1]
                /\ Abs(XDiff) > Abs(YDiff)
SwipeYHolds ==
    XYBaselines /\ Abs(YDiff) * swipe_threshold[2] > swipe_threshold[1]
                /\ Abs(YDiff) > Abs(XDiff)
TurnCrosses == Abs(TurnSum) * rotation_threshold[2] > rotation_threshold[1]
DepthHolds == Abs(ZDiff) * depth_threshold[2] > depth_threshold[1]

\* C11: detect_gesture returns the swipe whenever the swipe condition holds
\* against the X/Y baselines; otherwise the rotation whenever the accumulator
\* crosses the rotation threshold on this call; otherwise the push or pull
\* whenever the depth condition holds; otherwise what the shape rules give.
C11_OverridePrecedence ==
    Classified =>
        ret.gesture =
            IF SwipeXHolds THEN (IF XDiff > 0 THEN SWIPE_RIGHT ELSE SWIPE_LEFT)
            ELSE IF SwipeYHolds THEN (IF YDiff < 0 THEN SWIPE_UP ELSE SWIPE_DOWN)
            ELSE IF TurnCrosses
                 THEN (IF TurnSum > 0 THEN ROTATE_RIGHT ELSE ROTATE_LEFT)
            ELSE IF DepthHolds THEN (IF ZDiff < 0 THEN PALM_PUSH ELSE PALM_PULL)
            ELSE ShapeGesture(TheFrame.openness, TheFrame.landmarks)

\* C11 witness: a frame that crossed the rotation threshold, the swipe
\* threshold and the depth threshold at once was returned as a swipe.
C11_Witness ==
    /\ Classified /\ TurnCrosses /\ SwipeXHolds /\ DepthHolds
    /\ ret.gesture = SWIPE_RIGHT

\* C12 as claimed: when the palm of a frame lies more than swipe_threshold
\* to the side of the palm of the frame before it, and further to the side
\* than up or down, detect_gesture returns SWIPE_RIGHT for a move to the
\* right and SWIPE_LEFT for one to the left.
C12_SwipeBetweenFrames ==
    [][(Classified /\ FrameStep /\ ~ret'.raised) =>
         LET dx == Val(probe'.frame).palm_x - TheFrame.palm_x
             dy == Val(probe'.frame).palm_y - TheFrame.palm_y
         IN  (Abs(dx) * swipe_threshold[2] > swipe_threshold[1] /\ Abs(dx) > Abs(dy))
                 => ret'.gesture = IF dx > 0 THEN SWIPE_RIGHT ELSE SWIPE_LEFT
      ]_vars

\* C12 as amended: when detect_gesture finds both baselines set and the palm
\* lies more than swipe_threshold to the side of the X baseline, and further
\* to the side of it than above or below the Y baseline, it returns
\* SWIPE_RIGHT for a palm to the right of the baseline and SWIPE_LEFT for one
\* to the left, and moves the X baseline to the palm.
C12_SwipeFromBaseline ==
    (Classified /\ SwipeXHolds) =>
        /\ ret.gesture = IF XDiff > 0 THEN SWIPE_RIGHT ELSE SWIPE_LEFT
        /\ last_palm_x = Some(TheFrame.palm_x)
        /\ last_palm_y = probe.before.last_palm_y

\* C12 witness: a swipe to the left, returned on a frame that was pushed
\* forward as well.
C12_Witness ==
    /\ Classified /\ SwipeXHolds /\ XDiff < 0 /\ DepthHolds
    /\ ret.gesture = SWIPE_LEFT

\* The fraction r is max(a, b) of the fractions a and b.
IsMaxOf(r, a, b) ==
    /\ r[2] > 0
    /\ r[1] * a[2] >= a[1] * r[2]
    /\ r[1] * b[2] >= b[1] * r[2]
    /\ r[1] * a[2] = a[1] * r[2] \/ r[1] * b[2] = b[1] * r[2]

\* C13: the sensitivity is within [0.3, 3.0], and for this sensitivity s
\* cooldown_time = max(0.3, 0.8 / s), rotation_threshold = max(15, 25 / s),
\* swipe_threshold = max(60, 100 / s) and depth_threshold = 0.08 / s.
C13_SensitivityProfile ==
    /\ 3 <= sensitivity /\ sensitivity <= 30
    /\ IsMaxOf(cooldown_time, <<3, 1>>, <<80, sensitivity>>)
    /\ IsMaxOf(rotation_threshold, <<15, 1>>, <<250, sensitivity>>)
    /\ IsMaxOf(swipe_threshold, <<60, 1>>, <<1000, sensitivity>>)
    /\ depth_threshold[2] > 0
    /\ depth_threshold[1] * sensitivity = 80 * depth_threshold[2]

\* C13 witness: set_sensitivity has just brought the sensitivity to the
\* upper end of the range, where three thresholds sit on their floors, in a
\* run in which an effect has fired.
C13_Witness ==
    /\ ret.op = "set_sensitivity" /\ sensitivity = 30
    /\ FracEq(cooldown_time, <<3, 1>>) /\ FracEq(swipe_threshold, <<60, 1>>)
    /\ ~IsNone(hist.last_fired)

\* C14: in Media mode, with pyautogui present and no effect inside the
\* cooldown window, while FIST is classified on every frame since time t:
\* a frame no later than 0.3 s after t requests no effect; the first frame
\* later than 0.3 s after t requests play-pause once and nothing else, and
\* unless that request fails it returns action_taken and sets
\* last_action_time to the time of the frame.
C14_FistPlaysAfterHold ==
    [][(/\ FrameStep /\ ~ret'.raised /\ ret'.gesture = FIST
        /\ mode = MEDIA /\ PYAUTOGUI_AVAILABLE
        /\ (now' - last_action_time) * cooldown_time[2] >= cooldown_time[1]) =>
         LET t == Val(probe'.run_start)
         IN  /\ now' - t <= 3 =>
                    (ret'.calls = <<>> /\ ~ret'.taken /\ ~ret'.sink_raised)
             /\ (now' - t > 3 /\ probe.run_start = probe'.run_start /\ now - t <= 3) =>
                    /\ Len(ret'.calls) + (IF ret'.sink_raised THEN 1 ELSE 0) = 1
                    /\ ~ret'.sink_raised =>
                           /\ ret'.calls = << <<"press", "playpause", 0>> >>
                           /\ ret'.taken
                           /\ last_action_time' = now'
      ]_vars

----------------------------------------------------------------------------
(* Mouse mode, dispatch by dispatch *)

\* The step is a call of execute_action in Mouse mode with gesture g.
MouseDispatch(g) ==
    FrameStep /\ ret'.dispatched /\ mode = MOUSE /\ ret'.gesture = g

\* C15: in Mouse mode a PINCH dispatch clicks at most once, and only if the
\* dispatch before it (since the last reset, with no ActionSink call raising)
\* was not a PINCH dispatch, so that a run of PINCH dispatches clicks at most
\* once, on its first dispatch; and a PINCH dispatch returns action_taken
\* unless pyautogui is missing or an ActionSink call raises.
C15_PinchClicksOnce ==
    [][MouseDispatch(PINCH) =>
         /\ Count(ret'.calls, "click") <= 1
         /\ Count(ret'.calls, "click") = 1 => probe.prev_dispatch # PINCH
         /\ (PYAUTOGUI_AVAILABLE /\ ~ret'.sink_raised) => ret'.taken
      ]_vars

\* C15 witness: a pinch held since construction is dispatched for the
\* second time, 0.6 s after it began; it returns action_taken without a
\* click, the dispatch at 0.3 s having clicked.
C15_Witness ==
    /\ Dispatched /\ mode = MOUSE /\ ret.gesture = PINCH
    /\ probe.prev_dispatch = PINCH /\ now - gesture_start_time = 6
    /\ ret.calls = <<>> /\ ret.taken /\ is_clicking

\* C16: in Mouse mode, with pyautogui present and no ActionSink call
\* raising, a dispatch of any gesture but PINCH leaves is_clicking false, and
\* a PINCH dispatch that follows the dispatch of another gesture clicks.
C16_OthersRearmClick ==
    [][(FrameStep /\ ret'.dispatched /\ mode = MOUSE
          /\ PYAUTOGUI_AVAILABLE /\ ~ret'.sink_raised) =>
         /\ ret'.gesture # PINCH => ~is_clicking'
         /\ (ret'.gesture = PINCH /\ probe.prev_dispatch \notin {PINCH, NONE}) =>
                Count(ret'.calls, "click") = 1
      ]_vars

\* C17: in Mouse mode, with pyautogui present and no ActionSink call
\* raising, a PEACE dispatch right-clicks only if is_clicking was false when
\* it began, and leaves is_clicking true; so a PEACE dispatch that follows a
\* PEACE dispatch, or a PINCH dispatch, does not right-click.
C17_PeaceRightClicksOnce ==
    [][(MouseDispatch(PEACE) /\ PYAUTOGUI_AVAILABLE /\ ~ret'.sink_raised) =>
         /\ Count(ret'.calls, "rightClick") <= 1
         /\ Count(ret'.calls, "rightClick") = 1 => ~is_clicking
         /\ is_clicking'
         /\ probe.prev_dispatch \in {PEACE, PINCH} =>
                Count(ret'.calls, "rightClick") = 0
      ]_vars

----------------------------------------------------------------------------
(* The shape rules *)

\* Exactly the fingers of S (1 = thumb ... 5 = pinky) are extended in the
\* frame of the last call.
OnlyExtended(S) ==
    \A k \in 1..5 : DetectFingerStates(TheFrame.landmarks)[k] <=> k \in S

\* C18: with no depth, rotation or swipe rule firing, detect_gesture returns
\* PINCH for a pinch; else POINTING if and only if the index is the only
\* finger extended, PEACE if and only if index and middle are the only ones,
\* THUMBS_UP if and only if the thumb is the only one; else FIST for an
\* openness under 25, OPEN_HAND for one over 75 and NONE in between.
C18_ShapeRules ==
    Classified =>
        ret.gesture =
            IF DetectPinch(TheFrame.landmarks) THEN PINCH
            ELSE IF OnlyExtended({2}) THEN POINTING
            ELSE IF OnlyExtended({2, 3}) THEN PEACE
            ELSE IF OnlyExtended({1}) THEN THUMBS_UP
            ELSE IF TheFrame.openness < 25 THEN FIST
            ELSE IF TheFrame.openness > 75 THEN OPEN_HAND
            ELSE NONE

----------------------------------------------------------------------------
(* The rotation rule *)

\* The last call found a rotation baseline.
Turned == Classified /\ ~IsNone(probe.before.last_rotation)
\* What it added to the accumulator.
TheDelta == RotDiff(TheFrame.rotation, Val(probe.before.last_rotation))

\* C19: the difference detect_gesture adds to the accumulator lies in
\* (-180, 180] and is congruent modulo 360 to the palm angle of the frame
\* minus the one before.
C19_DeltaNormalised ==
    Turned =>
        /\ -180 < TheDelta /\ TheDelta <= 180
        /\ (TheDelta - (TheFrame.rotation - Val(probe.before.last_rotation))) % 360 = 0

Rotates == {ROTATE_LEFT, ROTATE_RIGHT}
\* The accumulator the last call found plus what it added.
TheSum == probe.before.rotation_accumulator + TheDelta

\* C20: detect_gesture returns a rotation exactly when the accumulator it
\* found plus the difference it adds is greater in absolute value than
\* rotation_threshold, ROTATE_RIGHT for a positive sum and ROTATE_LEFT for a
\* negative one, and then leaves the accumulator 0; otherwise it leaves the
\* sum in the accumulator.  Without a rotation baseline it returns no
\* rotation and leaves the accumulator as it was.
C20_TurnCrossesThreshold ==
    Classified =>
        IF IsNone(probe.before.last_rotation)
        THEN /\ ret.gesture \notin Rotates
             /\ rotation_accumulator = probe.before.rotation_accumulator
        ELSE IF Abs(TheSum) * rotation_threshold[2] > rotation_threshold[1]
        THEN /\ ret.gesture = IF TheSum > 0 THEN ROTATE_RIGHT ELSE ROTATE_LEFT
             /\ rotation_accumulator = 0
        ELSE /\ ret.gesture \notin Rotates
             /\ rotation_accumulator = TheSum

\* C20 witness: at sensitivity 3.0 (threshold 15) the frame at 40 degrees,
\* 10 degrees after the one before, meets an accumulator of 10 and is
\* returned as ROTATE_RIGHT.
C20_Witness ==
    /\ Classified /\ sensitivity = 30 /\ FracEq(rotation_threshold, <<15, 1>>)
    /\ TheFrame.rotation = 40 /\ probe.before.last_rotation = Some(30)
    /\ probe.before.rotation_accumulator = 10
    /\ ret.gesture = ROTATE_RIGHT /\ rotation_accumulator = 0

----------------------------------------------------------------------------
(* The position baselines *)

\* The baseline `last` after a call on a palm coordinate `palm` that was not
\* returned as a swipe.
Followed(last, palm) ==
    IF IsNone(last) THEN Some(palm)
    ELSE IF Abs(palm - Val(last)) < 10 THEN Some(palm)
    ELSE last

\* C21: after a detect_gesture that returns no swipe, each of last_palm_x
\* and last_palm_y is the palm coordinate of the frame if it was unset or
\* less than 10 px from it, and is unchanged otherwise; after a horizontal
\* swipe last_palm_x is the palm's x and last_palm_y is unchanged; after a
\* vertical swipe last_palm_y is the palm's y and last_palm_x is unchanged.
C21_StickyBaselines ==
    Classified =>
        IF ret.gesture \in {SWIPE_LEFT, SWIPE_RIGHT}
        THEN /\ last_palm_x = Some(TheFrame.palm_x)
             /\ last_palm_y = probe.before.last_palm_y
        ELSE IF ret.gesture \in {SWIPE_UP, SWIPE_DOWN}
        THEN /\ last_palm_y = Some(TheFrame.palm_y)
             /\ last_palm_x = probe.before.last_palm_x
        ELSE /\ last_palm_x = Followed(probe.before.last_palm_x, TheFrame.palm_x)
             /\ last_palm_y = Followed(probe.before.last_palm_y, TheFrame.palm_y)

\* C21 witness: a frame that is no swipe, 10 px from the X baseline, which
\* stays, and 9 px from the Y baseline, which follows.
C21_Witness ==
    /\ Classified /\ ret.gesture \notin Swipes
    /\ Abs(XDiff) = 10 /\ last_palm_x = probe.before.last_palm_x
    /\ Abs(YDiff) = 9 /\ last_palm_y = Some(TheFrame.palm_y)

----------------------------------------------------------------------------
(* The thresholds as functions of the sensitivity *)

\* Fraction a >= fraction b (denominators positive).
FracGe(a, b) == a[1] * b[2] >= b[1] * a[2]

\* C22: a set_sensitivity that does not lower the sensitivity raises none
\* of cooldown_time, rotation_threshold and swipe_threshold, and one that
\* does not raise it lowers none of them; each stays at or above its floor
\* (0.3 s, 15 degrees, 60 px).
C22_ThresholdsMonotone ==
    [][ret'.op = "set_sensitivity" =>
         /\ sensitivity <= sensitivity' =>
                /\ FracGe(cooldown_time, cooldown_time')
                /\ FracGe(rotation_threshold, rotation_threshold')
                /\ FracGe(swipe_threshold, swipe_threshold')
         /\ sensitivity >= sensitivity' =>
                /\ FracGe(cooldown_time', cooldown_time)
                /\ FracGe(rotation_threshold', rotation_threshold)
                /\ FracGe(swipe_threshold', swipe_threshold)
         /\ FracGe(cooldown_time', <<3, 1>>)
         /\ FracGe(rotation_threshold', <<15, 1>>)
         /\ FracGe(swipe_threshold', <<60, 1>>)
      ]_vars

\* C22 witness: set_sensitivity has set 2.0, where the cooldown (0.4 s) is
\* above its floor and below the default's, and the rotation threshold sits
\* on its floor.
C22_Witness ==
    /\ ret.op = "set_sensitivity" /\ sensitivity = 20
    /\ FracEq(cooldown_time, <<4, 1>>) /\ FracEq(rotation_threshold, <<15, 1>>)
    /\ FracEq(swipe_threshold, <<60, 1>>)

\* C23: when detect_gesture has returned, the rotation accumulator is no
\* greater in absolute value than rotation_threshold, whatever set_mode,
\* set_sensitivity and reset_state calls came before; and it is 0 whenever
\* the accumulator the call found plus the turn of the frame crossed the
\* threshold, also when the gesture returned is a swipe.
C23_AccumulatorBounded ==
    Classified =>
        /\ Abs(rotation_accumulator) * rotation_threshold[2] <= rotation_threshold[1]
        /\ TurnCrosses => rotation_accumulator = 0

\* C23 witness: an accumulator of 20, carried over a set_sensitivity that
\* lowered the threshold to 15, is cleared by the next frame, which turns
\* on and is returned as a swipe.
C23_Witness ==
    /\ Classified /\ FracEq(rotation_threshold, <<15, 1>>)
    /\ probe.before.rotation_accumulator = 20
    /\ TurnCrosses /\ ret.gesture \in Swipes
    /\ rotation_accumulator = 0

\* C24: the mouseDown and mouseUp calls the ActionSink receives alternate,
\* beginning with a mouseDown, over process_frame, set_mode and reset_state
\* calls, and after every call is_dragging is true exactly when the last of
\* them was a mouseDown.
C24_ButtonAlternates ==
    [][/\ (FrameStep /\ Count(ret'.calls, "mouseDown") > 0) =>
              (~probe.held /\ Count(ret'.calls, "mouseDown") = 1
                 /\ Count(ret'.calls, "mouseUp") = 0)
       /\ (FrameStep /\ Count(ret'.calls, "mouseUp") > 0) =>
              (probe.held /\ Count(ret'.calls, "mouseUp") = 1
                 /\ Count(ret'.calls, "mouseDown") = 0)
       /\ is_dragging' <=> probe'.held
      ]_vars

----------------------------------------------------------------------------
(* Scrolling *)

\* The scroll calls of the last call.
Scrolls == SelectSeq(ret.calls, LAMBDA c : c[1] = "scroll")

\* C25: in Mouse mode a scroll is issued only by a FIST dispatch whose palm
\* is at least 10 px above or below the Y baseline detect_gesture found, its
\* amount is twice that distance, so at least 20 in absolute value; and a
\* FIST dispatch less than 10 px from the baseline issues none.
C25_ScrollFromStickyBaseline ==
    (Classified /\ mode = MOUSE) =>
        /\ Len(Scrolls) <= 1
        /\ Len(Scrolls) = 1 =>
               /\ ret.dispatched /\ ret.gesture = FIST
               /\ Abs(YDiff) >= 10
               /\ Scrolls[1][3] = 2 * YDiff
               /\ Abs(Scrolls[1][3]) >= 20
        /\ (ret.dispatched /\ ret.gesture = FIST /\ Abs(YDiff) < 10) =>
               Len(Scrolls) = 0

\* C25 witness: a fist dispatched 10 px below the baseline scrolls by 20.
C25_Witness ==
    /\ Classified /\ mode = MOUSE /\ ret.dispatched /\ ret.gesture = FIST
    /\ YDiff = 10 /\ Len(Scrolls) = 1 /\ Scrolls[1][3] = 20

----------------------------------------------------------------------------
(* Effects of a gesture that is held *)

\* The last reading of the clock the model takes.
Horizon == Epoch + MaxTime

\* The effect table of the mode in force has an entry for g.
InTable(g) ==
    /\ mode \in RateGated
    /\ (IF mode = MEDIA THEN MediaAction(g)
        ELSE IF mode = WINDOW THEN WindowAction(g)
        ELSE PresentationAction(g)) # <<>>

\* The last loop iteration classified g, and its ActionSink calls, if any,
\* went through.
HeldGesture(g) ==
    /\ ret.op = "process_frame" /\ ~ret.raised /\ ret.gesture = g
    /\ PYAUTOGUI_AVAILABLE /\ ~ret.sink_raised

\* The hold duration and the cooldown both elapse by the horizon.
Elapses ==
    /\ Horizon - gesture_start_time > HoldTime(mode)
    /\ ~CooldownBlocks(Horizon, last_action_time, cooldown_time)

\* C26: in a rate-gated mode, a frame that repeats the gesture of the frame
\* before it, after the hold duration and the cooldown have elapsed, requests
\* the gesture's effect again; so if from some call on every frame is
\* classified as the same gesture of the mode's effect table and no ActionSink
\* call fails, the gesture's effect is reported and, once reported, reported
\* again, whenever hold duration and cooldown elapse before the clock's
\* horizon.
C26_HeldGestureRepeats ==
    /\ [][(/\ FrameStep /\ ret.op = "process_frame" /\ ~ret'.raised
            /\ ret'.gesture = ret.gesture /\ InTable(ret.gesture)
            /\ PYAUTOGUI_AVAILABLE
            /\ now' - gesture_start_time > HoldTime(mode)
            /\ ~CooldownBlocks(now', last_action_time, cooldown_time))
           => (ret'.dispatched /\ (ret'.calls # <<>> \/ ret'.sink_raised))]_vars
    /\ \A g \in {FIST, OPEN_HAND} : \A n \in {0, 1} :
          []((/\ probe.effects = n /\ InTable(g) /\ Elapses
              /\ [](HeldGesture(g)))
             => <>(probe.effects = n + 1 /\ ret.taken /\ ret.gesture = g
                   /\ ret.calls # <<>>))

\* C26 witness: a fist held in Media mode has had its effect twice.
C26_Witness ==
    /\ mode = MEDIA /\ ret.op = "process_frame" /\ ret.gesture = FIST
    /\ ret.taken /\ probe.effects = 2
    /\ ret.calls = <<(<<"press", "playpause", 0>>)>>

====
